---------------------------- MODULE Spec2Model ----------------------------
(***************************************************************************)
(* Model of gradio_app/app.py: the voice_chat event handler.               *)
(*                                                                         *)
(* Each submission is one call of voice_chat.  A submission walks through  *)
(* the handler's statements; the steps that touch the temporary directory, *)
(* the clock, the progress sink or the network are separate actions, so    *)
(* that submissions running in different worker threads can interleave.    *)
(* Strings built with f-strings are sequences of fragments, bytes are      *)
(* sequences of tokens, and None is the empty tuple.                       *)
(***************************************************************************)
EXTENDS Integers, Sequences, FiniteSets, TLC

\* ---------------------------------------------------------------- bounds
\* Last value of int(time.time()) the clock reaches, counted from 0.
MaxClock == 1
Clock == 0..MaxClock

\* The submissions (calls of voice_chat) of one behaviour: a first and a second.
Subs == {1, 2}

\* ------------------------------------------------------------- constants
API_URL == "http://localhost:8000/voice-chat"
REQUEST_TIMEOUT == 300

\* ------------------------------------------------------------ input data
NoneAudio == [kind |-> "None", sr |-> 0, dtype |-> "", data |-> <<>>]
\* A value that is not a (sr, data) pair: "sr, audio_data = audio" raises.
Malformed == [kind |-> "malformed", sr |-> 0, dtype |-> "", data |-> <<>>]
\* A pair whose samples have a dtype scipy.io.wavfile.write rejects.
BadDtype == [kind |-> "pair", sr |-> 16000, dtype |-> "complex128", data |-> <<"z">>]
Clip1 == [kind |-> "pair", sr |-> 16000, dtype |-> "int16", data |-> <<"a">>]
Clip2 == [kind |-> "pair", sr |-> 8000, dtype |-> "int16", data |-> <<"b", "b">>]
AudioInputs == {NoneAudio, Malformed, BadDtype, Clip1, Clip2}

\* scipy.io.wavfile.write: a header carrying the rate, then the samples.
WavEncode(sr, data) == <<"RIFF", ToString(sr)>> \o data

\* Exceptions: the class decides which except clause catches, detail is str(e).
Exc(cls, detail) == [cls |-> cls, detail |-> detail]
\* requests.exceptions: ConnectTimeout derives from ConnectionError and Timeout.
IsTimeout(e) == e.cls \in {"ReadTimeout", "ConnectTimeout"}
IsConnectionError(e) == e.cls \in {"ConnectionError", "ConnectTimeout"}
TransportErrors ==
    { Exc("ReadTimeout", "read timed out"),
      Exc("ConnectTimeout", "connect timed out"),
      Exc("ConnectionError", "connection refused"),
      Exc("ChunkedEncodingError", "connection broken") }
SinkError == Exc("RuntimeError", "progress sink failed")
DiskError == Exc("OSError", "No space left on device")

\* Response bodies, as byte tokens.  "m" stands for the member
\* "message": "boom", "k" for a member with another key.
Contents ==
    { <<>>, <<"w", "w">>, <<"w">>, <<"{", "m", "}">>, <<"{", "k", "}">>, <<"[", "]">> }
Statuses == {200, 500}
NoResponse == [status_code |-> 0, content |-> <<>>]
Responses == [status_code : Statuses, content : Contents]

\* ------------------------------------------------------------- messages
NoPath == <<>>
MsgNoAudio == <<"Mohon rekam suara terlebih dahulu">>
MsgSaveFailed == <<"Gagal menyimpan file audio">>
MsgTimeout == <<"Waktu permintaan habis. Server membutuhkan waktu terlalu lama untuk merespons.">>
MsgConnection == <<"Tidak dapat terhubung ke server. Pastikan server berjalan di http://localhost:8000">>
MsgRequestError(e) == <<"Error: ", e.detail>>
MsgEmptyResponse == <<"Server mengembalikan respons kosong">>
MsgInvalidOutput == <<"File audio respons kosong atau tidak valid">>
MsgWriteFailed(e) == <<"Gagal menyimpan file audio respons: ", e.detail>>
MsgSuccess == <<"Berhasil mendapatkan respons">>
MsgServerError(detail) == <<"Server Error: ">> \o detail
MsgUnexpected(e) == <<"Terjadi kesalahan: ", e.detail>>

\* ---------------------------------------------------------- file names
InputName(t) == <<"input_", t, ".wav">>
OutputName(t) == <<"tts_output_", t, ".wav">>
TmpNames == {InputName(t) : t \in Clock} \cup {OutputName(t) : t \in Clock}
Absent == [exists |-> FALSE, bytes |-> <<>>]
File(bytes) == [exists |-> TRUE, bytes |-> bytes]

\* What a write of `new` at offset 0 leaves in a file that held `old`.
WriteAt0(old, new) == new \o SubSeq(old, Len(new) + 1, Len(old))

\* -------------------------------------------------- response.json()
MessageValue == "boom"
IsJsonObject(c) ==
    /\ Len(c) >= 2
    /\ c[1] = "{"
    /\ c[Len(c)] = "}"
    /\ \A i \in 2..(Len(c) - 1) : c[i] \in {"m", "k"}
IsJsonArray(c) == c = <<"[", "]">>
JsonParses(c) == IsJsonObject(c) \/ IsJsonArray(c)
HasMessageKey(c) == \E i \in 2..(Len(c) - 1) : c[i] = "m"

\* f"Kode status: {response.status_code}"
StatusDetail(r) == <<"Kode status: ", ToString(r.status_code)>>

\* The detail with the parsed body's message field ignored.
ErrorDetailStatusOnly(r) == StatusDetail(r)

\* Lines 120-125: the detail of a non-200 response.
ErrorDetail(r) ==
    IF r.content = <<>> THEN StatusDetail(r)           \* {}.get('message', default)
    ELSE IF ~JsonParses(r.content) THEN StatusDetail(r) \* json() raises
    ELSE IF ~IsJsonObject(r.content) THEN StatusDetail(r) \* list has no .get
    ELSE IF HasMessageKey(r.content) THEN <<MessageValue>>
    ELSE StatusDetail(r)

\* The chain with the ConnectionError clause ahead of the Timeout clause.
TransportHandlerConnectionFirst(e) ==
    IF IsConnectionError(e) THEN MsgConnection
    ELSE IF IsTimeout(e) THEN MsgTimeout
    ELSE MsgRequestError(e)

\* Lines 65-78: the except chain around requests.post.
TransportHandler(e) ==
    IF IsTimeout(e) THEN MsgTimeout
    ELSE IF IsConnectionError(e) THEN MsgConnection
    ELSE MsgRequestError(e)

\* A guard that lets None through.
AudioIsNoneNever(a) == FALSE

\* Line 22: audio is None.
AudioIsNone(a) == a.kind = "None"

\* A check that takes every body for non-empty.
ContentIsEmptyNever(c) == FALSE

\* Line 89: not response.content.
ContentIsEmpty(c) == c = <<>>

\* scipy.io.wavfile.write accepts integer and float samples only.
DtypeSupported(a) == a.dtype \in {"int16", "int32", "float32", "uint8"}

\* Mode "ab": the file keeps what it held.
OpenedForAppend(old) == File(old.bytes)

\* Line 99: mode "wb" creates the file or truncates it.
OpenedForWrite(old) == File(<<>>)

\* ---------------------------------------------------------------- state
VARIABLES
    now,               \* int(time.time())
    fs,                \* tempfile.gettempdir(): name -> file
    pc,                \* each submission's position in voice_chat
    audio,             \* the argument of the call
    progress,          \* milestones the progress sink accepted, in percent
    audio_filename,    \* local of voice_chat (line 39)
    output_audio_path, \* local of voice_chat (line 95)
    sent,              \* requests handed to requests.post
    response,          \* local of voice_chat (line 56)
    wrote,             \* the submission's open-for-write and write calls
    raised,            \* exceptions raised inside the call, and where
    result             \* the (path, message) pair returned

vars == <<now, fs, pc, audio, progress, audio_filename, output_audio_path,
          sent, response, wrote, raised, result>>

NoResult == [path |-> NoPath, message |-> <<>>]
Running(s) == pc[s] \notin {"idle", "done", "raised"}

Init ==
    /\ now = 0
    /\ fs = [n \in TmpNames |-> Absent]
    /\ pc = [s \in Subs |-> "idle"]
    /\ audio = [s \in Subs |-> NoneAudio]
    /\ progress = [s \in Subs |-> <<>>]
    /\ audio_filename = [s \in Subs |-> NoPath]
    /\ output_audio_path = [s \in Subs |-> NoPath]
    /\ sent = [s \in Subs |-> <<>>]
    /\ response = [s \in Subs |-> NoResponse]
    /\ wrote = [s \in Subs |-> <<>>]
    /\ raised = [s \in Subs |-> <<>>]
    /\ result = [s \in Subs |-> NoResult]

\* return path, message
Return(s, path, message) ==
    /\ result' = [result EXCEPT ![s] = [path |-> path, message |-> message]]
    /\ pc' = [pc EXCEPT ![s] = "done"]

Goto(s, label) ==
    /\ pc' = [pc EXCEPT ![s] = label]
    /\ UNCHANGED result

\* An exception e raised by the statement at the submission's position.
Raise(s, e) == raised' = [raised EXCEPT ![s] = Append(@, [at |-> pc[s], exc |-> e])]

\* A top-level handler that hands back the output path it had computed.
UnexpectedKeepsPath(s, e) ==
    /\ Raise(s, e)
    /\ Return(s, output_audio_path[s], MsgUnexpected(e))

\* Lines 130-133: the handler of the top-level try.
Unexpected(s, e) ==
    /\ Raise(s, e)
    /\ Return(s, NoPath, MsgUnexpected(e))

\* The progress sink takes the milestone (progress(fraction, desc=...)).
Report(s, percent) == progress' = [progress EXCEPT ![s] = Append(@, percent)]

Opened(s, name) == wrote' = [wrote EXCEPT ![s] = Append(@, [op |-> "open", name |-> name, bytes |-> <<>>])]
Written(s, name, bytes) == wrote' = [wrote EXCEPT ![s] = Append(@, [op |-> "write", name |-> name, bytes |-> bytes])]

\* The clock passes to the next second.
Tick ==
    /\ now < MaxClock
    /\ now' = now + 1
    /\ UNCHANGED <<fs, pc, audio, progress, audio_filename, output_audio_path,
                   sent, response, wrote, raised, result>>

\* Lines 21-27: the call, the None guard, the timestamp log.
Call(s) ==
    /\ pc[s] = "idle"
    /\ \E a \in AudioInputs :
        /\ audio' = [audio EXCEPT ![s] = a]
        /\ IF AudioIsNone(a)
              THEN Return(s, NoPath, MsgNoAudio)
              ELSE Goto(s, "progress0")
    /\ UNCHANGED <<now, fs, progress, audio_filename, output_audio_path,
                   sent, response, wrote, raised>>

\* Line 30: progress(0, ...), before the try block is entered: what the
\* sink raises here leaves voice_chat.
Progress0(s) ==
    /\ pc[s] = "progress0"
    /\ \E ok \in BOOLEAN :
        IF ok
           THEN /\ Report(s, 0)
                /\ Goto(s, "save")
                /\ UNCHANGED raised
           ELSE /\ Raise(s, SinkError)
                /\ pc' = [pc EXCEPT ![s] = "raised"]
                /\ UNCHANGED <<progress, result>>
    /\ UNCHANGED <<now, fs, audio, audio_filename, output_audio_path,
                   sent, response, wrote>>

\* Lines 33-42: unpack the pair, name the input file after the clock, and
\* the first half of scipy.io.wavfile.write: open the file, check the dtype.
SaveInput(s) ==
    /\ pc[s] = "save"
    /\ IF audio[s].kind # "pair"
          THEN /\ Unexpected(s, Exc("ValueError", "not enough values to unpack"))
               /\ UNCHANGED <<audio_filename, fs, wrote>>
          ELSE /\ audio_filename' = [audio_filename EXCEPT ![s] = InputName(now)]
               /\ \E ok \in BOOLEAN :
                    IF ~ok
                       THEN /\ Unexpected(s, DiskError)
                            /\ UNCHANGED <<fs, wrote>>
                       ELSE /\ fs' = [fs EXCEPT ![InputName(now)] = OpenedForWrite(@)]
                            /\ Opened(s, InputName(now))
                            /\ IF DtypeSupported(audio[s])
                                  THEN Goto(s, "encode") /\ UNCHANGED raised
                                  ELSE Unexpected(s, Exc("ValueError", "Unsupported data type"))
    /\ UNCHANGED <<now, audio, progress, output_audio_path, sent, response>>

\* Line 42, second half of scipy.io.wavfile.write: header and samples.
EncodeInput(s) ==
    /\ pc[s] = "encode"
    /\ \E ok \in BOOLEAN :
        IF ok
           THEN /\ fs' = [fs EXCEPT ![audio_filename[s]] =
                             File(WriteAt0(@.bytes, WavEncode(audio[s].sr, audio[s].data)))]
                /\ Written(s, audio_filename[s], WavEncode(audio[s].sr, audio[s].data))
                /\ Goto(s, "check")
                /\ UNCHANGED raised
           ELSE /\ Unexpected(s, DiskError)
                /\ UNCHANGED <<fs, wrote>>
    /\ UNCHANGED <<now, audio, progress, audio_filename, output_audio_path,
                   sent, response>>

\* Lines 45-47: os.path.exists(audio_path).
CheckInput(s) ==
    /\ pc[s] = "check"
    /\ IF fs[audio_filename[s]].exists
          THEN Goto(s, "progress30")
          ELSE Return(s, NoPath, MsgSaveFailed)
    /\ UNCHANGED <<now, fs, audio, progress, audio_filename, output_audio_path,
                   sent, response, wrote, raised>>

\* Line 49: progress(0.3, ...).
Progress30(s) ==
    /\ pc[s] = "progress30"
    /\ \E ok \in BOOLEAN :
        IF ok
           THEN /\ Report(s, 30)
                /\ Goto(s, "post")
                /\ UNCHANGED raised
           ELSE /\ Unexpected(s, SinkError)
                /\ UNCHANGED progress
    /\ UNCHANGED <<now, fs, audio, audio_filename, output_audio_path,
                   sent, response, wrote>>

\* Lines 54-60: the multipart request, read from the input file.
Request(s) ==
    [url |-> API_URL, timeout |-> REQUEST_TIMEOUT, filename |-> audio_filename[s],
     mime |-> "audio/wav", bytes |-> fs[audio_filename[s]].bytes, after |-> progress[s]]

\* Lines 52-63: requests.post answers.
PostResponds(s) ==
    /\ pc[s] = "post"
    /\ fs[audio_filename[s]].exists
    /\ sent' = [sent EXCEPT ![s] = Append(@, Request(s))]
    /\ \E r \in Responses : response' = [response EXCEPT ![s] = r]
    /\ Goto(s, "progress70")
    /\ UNCHANGED <<now, fs, audio, progress, audio_filename, output_audio_path,
                   wrote, raised>>

\* A handler that sends the request again after a timeout.
RetryOnTimeout(s, e) ==
    /\ Raise(s, e)
    /\ IF IsTimeout(e)
          THEN Goto(s, "post")
          ELSE Return(s, NoPath, TransportHandler(e))

\* Lines 65-78: each except clause returns.
RequestFailed(s, e) ==
    /\ Raise(s, e)
    /\ Return(s, NoPath, TransportHandler(e))

\* Lines 52-78: open or requests.post raises.
PostRaises(s) ==
    /\ pc[s] = "post"
    /\ IF fs[audio_filename[s]].exists
          THEN /\ sent' = [sent EXCEPT ![s] = Append(@, Request(s))]
               /\ \E e \in TransportErrors : RequestFailed(s, e)
          ELSE /\ RequestFailed(s, Exc("FileNotFoundError", "No such file or directory"))
               /\ UNCHANGED sent
    /\ UNCHANGED <<now, fs, audio, progress, audio_filename, output_audio_path,
                   response, wrote>>

\* Line 80: progress(0.7, ...).
Progress70(s) ==
    /\ pc[s] = "progress70"
    /\ \E ok \in BOOLEAN :
        IF ok
           THEN /\ Report(s, 70)
                /\ Goto(s, "status")
                /\ UNCHANGED raised
           ELSE /\ Unexpected(s, SinkError)
                /\ UNCHANGED progress
    /\ UNCHANGED <<now, fs, audio, audio_filename, output_audio_path,
                   sent, response, wrote>>

\* Lines 82-96 and 117-128: the branch on the status code.
HandleStatus(s) ==
    /\ pc[s] = "status"
    /\ IF response[s].status_code = 200
          THEN IF ContentIsEmpty(response[s].content)
                  THEN /\ Return(s, NoPath, MsgEmptyResponse)
                       /\ UNCHANGED output_audio_path
                  ELSE /\ output_audio_path' =
                              [output_audio_path EXCEPT ![s] = OutputName(now)]
                       /\ Goto(s, "open")
          ELSE /\ Return(s, NoPath, MsgServerError(ErrorDetail(response[s])))
               /\ UNCHANGED output_audio_path
    /\ UNCHANGED <<now, fs, audio, progress, audio_filename, sent, response,
                   wrote, raised>>

\* Lines 110-113: the handler of the try around the output file.
SaveOutputFailed(s, e) ==
    /\ Raise(s, e)
    /\ Return(s, NoPath, MsgWriteFailed(e))

\* Line 99: open(output_audio_path, "wb").
OpenOutput(s) ==
    /\ pc[s] = "open"
    /\ \E ok \in BOOLEAN :
        IF ok
           THEN /\ fs' = [fs EXCEPT ![output_audio_path[s]] = OpenedForWrite(@)]
                /\ Opened(s, output_audio_path[s])
                /\ Goto(s, "write")
                /\ UNCHANGED raised
           ELSE /\ SaveOutputFailed(s, DiskError)
                /\ UNCHANGED <<fs, wrote>>
    /\ UNCHANGED <<now, audio, progress, audio_filename, output_audio_path,
                   sent, response>>

\* Lines 100-101: f.write(response.content) and the close of the file.
WriteOutput(s) ==
    /\ pc[s] = "write"
    /\ \E ok \in BOOLEAN :
        IF ok
           THEN /\ fs' = [fs EXCEPT ![output_audio_path[s]] =
                             File(WriteAt0(@.bytes, response[s].content))]
                /\ Written(s, output_audio_path[s], response[s].content)
                /\ Goto(s, "verify")
                /\ UNCHANGED raised
           ELSE /\ SaveOutputFailed(s, DiskError)
                /\ UNCHANGED <<fs, wrote>>
    /\ UNCHANGED <<now, audio, progress, audio_filename, output_audio_path,
                   sent, response>>

\* Line 104: not os.path.exists(path) or os.path.getsize(path) == 0.
OutputInvalid(s) ==
    \/ ~fs[output_audio_path[s]].exists
    \/ Len(fs[output_audio_path[s]].bytes) = 0

\* Lines 104-108: the file must exist and hold at least one byte.
VerifyOutput(s) ==
    /\ pc[s] = "verify"
    /\ IF OutputInvalid(s)
          THEN Return(s, NoPath, MsgInvalidOutput)
          ELSE Goto(s, "progress100")
    /\ UNCHANGED <<now, fs, audio, progress, audio_filename, output_audio_path,
                   sent, response, wrote, raised>>

\* Lines 115-116: progress(1.0, ...) and the successful return.
Progress100(s) ==
    /\ pc[s] = "progress100"
    /\ \E ok \in BOOLEAN :
        IF ok
           THEN /\ Report(s, 100)
                /\ Return(s, output_audio_path[s], MsgSuccess)
                /\ UNCHANGED raised
           ELSE /\ Unexpected(s, SinkError)
                /\ UNCHANGED progress
    /\ UNCHANGED <<now, fs, audio, audio_filename, output_audio_path,
                   sent, response, wrote>>

Step(s) ==
    \/ Progress0(s)
    \/ SaveInput(s)
    \/ EncodeInput(s)
    \/ CheckInput(s)
    \/ Progress30(s)
    \/ PostResponds(s)
    \/ PostRaises(s)
    \/ Progress70(s)
    \/ HandleStatus(s)
    \/ OpenOutput(s)
    \/ WriteOutput(s)
    \/ VerifyOutput(s)
    \/ Progress100(s)

\* Submissions are handled one at a time: a call starts when none is running.
CallAlone(s) ==
    /\ \A t \in Subs : ~Running(t)
    /\ Call(s)

Next ==
    \/ Tick
    \/ \E s \in Subs : CallAlone(s) \/ Step(s)

Spec == Init /\ [][Next]_vars

\* Submissions handled by concurrent worker threads: calls may overlap.
NextOverlap ==
    \/ Tick
    \/ \E s \in Subs : Call(s) \/ Step(s)

SpecOverlap == Init /\ [][NextOverlap]_vars

\* ------------------------------------------------------------ properties
\* The message, a sequence of fragments, holds the fragment.
Contains(msg, frag) == \E i \in 1..Len(msg) : msg[i] = frag
Returned(s) == pc[s] = "done"
Returning(s) == pc[s] # "done" /\ pc'[s] = "done"
Succeeded(s) == Returned(s) /\ result[s].message = MsgSuccess
RaisedAt(s, labels) == \E i \in 1..Len(raised[s]) : raised[s][i].at \in labels
LastRaised(s) == raised[s][Len(raised[s])].exc
OpenedOutput(s) == \E i \in 1..Len(wrote[s]) : wrote[s][i].name[1] = "tts_output_"
WroteOutput(s) ==
    \E i \in 1..Len(wrote[s]) :
        wrote[s][i].op = "write" /\ wrote[s][i].name = output_audio_path[s]
Reported(s, percent) == Contains(progress[s], percent)
Milestones == <<0, 30, 70, 100>>
StrictPrefix(a, b) == Len(a) < Len(b) /\ a = SubSeq(b, 1, Len(a))
PcOrder ==
    <<"idle", "progress0", "save", "encode", "check", "progress30", "post",
      "progress70", "status", "open", "write", "verify", "progress100", "done">>
Rank(l) == IF l = "raised" THEN Len(PcOrder) ELSE CHOOSE i \in 1..Len(PcOrder) : PcOrder[i] = l

\* C1: a call whose audio is None returns (no path, the warning message) and
\* on that path issues no request, writes no temporary file and reports no
\* progress.
C1_NoAudioWarning ==
    \A s \in Subs :
        (pc[s] # "idle" /\ audio[s] = NoneAudio) =>
            /\ pc[s] = "done"
            /\ result[s] = [path |-> NoPath, message |-> MsgNoAudio]
            /\ sent[s] = <<>>
            /\ wrote[s] = <<>>
            /\ progress[s] = <<>>

\* A call with None has returned while the other submission sent a request.
C1_Witness ==
    \E s, t \in Subs :
        /\ Returned(s) /\ audio[s] = NoneAudio
        /\ Len(sent[t]) = 1

\* C2: no exception leaves voice_chat, whatever the input, the progress
\* sink, the encoder, the HTTP client and the file system do, the statements
\* ahead of the top-level try block included.
C2_NoExceptionEscapes == \A s \in Subs : pc[s] # "raised"

\* C3: two submissions never name their output files alike, nor their input
\* files, also when both read the clock within one second.
C3_DistinctNames ==
    \A s, t \in Subs :
        s # t =>
            /\ (output_audio_path[s] # NoPath /\ output_audio_path[t] # NoPath
                    => output_audio_path[s] # output_audio_path[t])
            /\ (audio_filename[s] # NoPath /\ audio_filename[t] # NoPath
                    => audio_filename[s] # audio_filename[t])

\* C4: when both of two overlapping submissions return Success, the file at
\* the path each got holds the response bytes that submission received, from
\* its return on, and each uploaded the WAV encoding of its own audio.
C4_FilesNotCorrupted ==
    (\A s \in Subs : Succeeded(s)) =>
        \A s \in Subs :
            /\ fs[result[s].path] = File(response[s].content)
            /\ sent[s][1].bytes = WavEncode(audio[s].sr, audio[s].data)

\* What C5 promises of a return: Success, a path to a file equal to the
\* response bytes, and all four milestones reported.
SuccessWithFile(s) ==
    /\ result[s].message = MsgSuccess
    /\ result[s].path # NoPath
    /\ fs[result[s].path] = File(response[s].content)
    /\ progress[s] = Milestones

\* C5 as claimed: a call that got status 200 with a non-empty body and wrote
\* it returns Success with a path to a file equal to the response bytes,
\* 100% reported before.
C5_Original ==
    [][\A s \in Subs :
          (/\ Returning(s)
           /\ response[s].status_code = 200
           /\ response[s].content # <<>>
           /\ WroteOutput(s))
          => SuccessWithFile(s)']_vars

\* C5 amended: a call, not overlapped by another, that got status 200 with a
\* non-empty body, wrote it, and whose 100% report the sink accepted, returns
\* Success with a path to a file that at the return equals the response
\* bytes.
C5_SuccessRoundTrip ==
    [][\A s \in Subs :
          (/\ Returning(s)
           /\ response[s].status_code = 200
           /\ response[s].content # <<>>
           /\ WroteOutput(s)
           /\ Reported(s, 100)')
          => SuccessWithFile(s)']_vars

\* A second submission has succeeded under the name the first one used, and
\* the file holds the two bytes of its response.
C5_Witness ==
    \E s, t \in Subs :
        /\ s # t /\ Succeeded(s) /\ Succeeded(t)
        /\ result[s].path = result[t].path
        /\ response[t].content = <<"w">>
        /\ response[s].content = <<"w", "w">>
        /\ fs[result[s].path] = File(<<"w", "w">>)

\* The body parses to an object that carries the message field.
CarriesMessage(c) == IsJsonObject(c) /\ HasMessageKey(c)

\* What C6 promises of a return: no path, and an error message that holds
\* the message field's value, or else the status code.
ServerErrorReported(s) ==
    /\ result[s].path = NoPath
    /\ result[s].message # MsgSuccess
    /\ IF CarriesMessage(response[s].content)
          THEN Contains(result[s].message, MessageValue)
          ELSE Contains(result[s].message, ToString(response[s].status_code))

\* C6 as claimed: every response whose status is not 200 is answered with no
\* path and an error that holds the message field's value, or the status code.
C6_Original ==
    \A s \in Subs :
        (Returned(s) /\ response[s] # NoResponse /\ response[s].status_code # 200)
            => ServerErrorReported(s)

\* C6 amended: the same, for the responses after which the sink accepted the
\* 70% report.
C6_ServerError ==
    \A s \in Subs :
        (/\ Returned(s)
         /\ response[s] # NoResponse
         /\ response[s].status_code # 200
         /\ Reported(s, 70))
            => ServerErrorReported(s)

\* One submission got a 500 whose body carries the field, the other a 500
\* whose body parses to a list; both have returned.
C6_Witness ==
    \E s, t \in Subs :
        /\ Returned(s) /\ Reported(s, 70) /\ response[s].status_code = 500
        /\ response[s].content = <<"{", "m", "}">>
        /\ Returned(t) /\ Reported(t, 70) /\ response[t].status_code = 500
        /\ response[t].content = <<"[", "]">>

\* C7: a failed upload returns no path, opens no output file, and reports the
\* kind of the failure: Timeout for a timeout (also one that is a connection
\* failure too), ConnectionFailure for a connection failure, else the detail.
C7_TransportFailure ==
    \A s \in Subs :
        (Returned(s) /\ RaisedAt(s, {"post"})) =>
            /\ result[s].path = NoPath
            /\ ~OpenedOutput(s)
            /\ (IsTimeout(LastRaised(s)) => result[s].message = MsgTimeout)
            /\ (IsConnectionError(LastRaised(s)) /\ ~IsTimeout(LastRaised(s))
                    => result[s].message = MsgConnection)
            /\ (~IsConnectionError(LastRaised(s)) /\ ~IsTimeout(LastRaised(s))
                    => /\ result[s].message \notin {MsgTimeout, MsgConnection}
                       /\ Contains(result[s].message, LastRaised(s).detail))

\* A connect timeout, which is both kinds, has been reported as Timeout.
C7_Witness ==
    \E s \in Subs :
        /\ Returned(s) /\ RaisedAt(s, {"post"})
        /\ LastRaised(s).cls = "ConnectTimeout"
        /\ result[s].message = MsgTimeout

\* C8: a submission issues at most one request, never steps back to an
\* earlier statement, returns in the step in which something is raised, and
\* does nothing once it has returned.
C8_NoRetries ==
    [][\A s \in Subs :
          /\ Len(sent'[s]) <= 1
          /\ Rank(pc'[s]) >= Rank(pc[s])
          /\ (raised'[s] # raised[s] => pc'[s] \in {"done", "raised"})
          /\ (pc[s] \in {"done", "raised"} =>
                 /\ pc'[s] = pc[s]
                 /\ sent'[s] = sent[s]
                 /\ wrote'[s] = wrote[s]
                 /\ result'[s] = result[s])]_vars

\* A submission has returned after its one request timed out.
C8_Witness ==
    \E s \in Subs :
        /\ Returned(s) /\ RaisedAt(s, {"post"})
        /\ IsTimeout(LastRaised(s))
        /\ Len(sent[s]) = 1

\* C9 as claimed: on status 200, an empty body returns the empty-response
\* error with no output file opened; a non-empty body whose write raises, or
\* leaves a missing or zero-byte file, returns the empty-or-invalid error;
\* both with no path and without the 100% report.
C9_Original ==
    [][\A s \in Subs :
          (Returning(s) /\ response[s].status_code = 200) =>
              /\ response[s].content = <<>> =>
                    /\ result'[s] = [path |-> NoPath, message |-> MsgEmptyResponse]
                    /\ ~OpenedOutput(s)'
                    /\ ~Reported(s, 100)'
              /\ (/\ response[s].content # <<>>
                  /\ \/ RaisedAt(s, {"open", "write"})'
                     \/ (pc[s] = "verify" /\ OutputInvalid(s))) =>
                    /\ result'[s] = [path |-> NoPath, message |-> MsgInvalidOutput]
                    /\ ~Reported(s, 100)']_vars

\* C9 amended: on status 200 with the 70% report accepted, an empty body
\* returns the empty-response error with no output file opened; a non-empty
\* body whose open or write raises returns the failed-to-save error with the
\* failure's detail; a file found missing or zero-byte after the write
\* returns the empty-or-invalid error; all with no path and without the 100%
\* report.
C9_Status200Failures ==
    [][\A s \in Subs :
          (Returning(s) /\ response[s].status_code = 200 /\ Reported(s, 70)) =>
              /\ response[s].content = <<>> =>
                    /\ result'[s] = [path |-> NoPath, message |-> MsgEmptyResponse]
                    /\ ~OpenedOutput(s)'
                    /\ ~Reported(s, 100)'
              /\ (response[s].content # <<>> /\ RaisedAt(s, {"open", "write"})') =>
                    /\ result'[s] =
                          [path |-> NoPath,
                           message |-> <<"Gagal menyimpan file audio respons: ",
                                         LastRaised(s)'.detail>>]
                    /\ ~Reported(s, 100)'
              /\ (response[s].content # <<>> /\ pc[s] = "verify" /\ OutputInvalid(s)) =>
                    /\ result'[s] = [path |-> NoPath, message |-> MsgInvalidOutput]
                    /\ ~Reported(s, 100)']_vars

\* The three cases have happened: one submission found its output file
\* zero-byte after the other had opened it, the other's write then raised;
\* or a submission got an empty body.
C9_Witness ==
    \E s, t \in Subs :
        /\ s # t
        /\ Returned(s) /\ result[s].message = MsgInvalidOutput
        /\ Returned(t) /\ RaisedAt(t, {"write"})
        /\ result[t].message = MsgWriteFailed(DiskError)

=============================================================================
